---- MODULE Spec2Model ----
(***************************************************************************)
(* Model of the article-downloader service (src/src/main.py).              *)
(*                                                                         *)
(* POST /process-article is modelled one statement group at a time, one    *)
(* program counter per request, so that requests served by different       *)
(* worker processes interleave on the shared temporary-file namespace.     *)
(* Every external collaborator (OpenAI client, HTTP GET, BeautifulSoup,    *)
(* tempfile, reportlab, SMTP, os.unlink) either returns or raises; which   *)
(* one happens is chosen by the environment.                               *)
(*                                                                         *)
(* Text is a sequence of one-character strings, so that str.startswith     *)
(* and the `in` operator are computed rather than assumed.                 *)
(***************************************************************************)
EXTENDS Naturals, Sequences, FiniteSets

(* ---------------------------------------------------------------- bounds *)

\* number of requests that may be in flight together
NumReqs == 2

\* size of the temporary-file namespace
NumPaths == 2

Reqs == 1..NumReqs

Paths == 1..NumPaths

(* ------------------------------------------------------------ text inputs *)

HTTP == <<"h", "t", "t", "p", ":", "/", "/">>

HTTPS == <<"h", "t", "t", "p", "s", ":", "/", "/">>

\* "http://a", "https://a", "ftp://a", "http:/a"
URLs ==
    { HTTP \o <<"a">>,
      HTTPS \o <<"a">>,
      <<"f", "t", "p", ":", "/", "/", "a">>,
      <<"h", "t", "t", "p", ":", "/", "a">> }

\* "a@b.c", "ab.c", "a@bc", "abc"
Emails ==
    { <<"a", "@", "b", ".", "c">>,
      <<"a", "b", ".", "c">>,
      <<"a", "@", "b", "c">>,
      <<"a", "b", "c">> }

\* an environment variable: unset (os.getenv gives None), or set to a text
EnvValues ==
    { [isset |-> FALSE, val |-> <<>>],
      [isset |-> TRUE, val |-> <<>>],
      [isset |-> TRUE, val |-> <<"x">>] }

\* str.startswith(prefix)
StartsWith(s, p) == Len(s) >= Len(p) /\ SubSeq(s, 1, Len(p)) = p

\* c in s, for a one-character c
Contains(s, c) == \E i \in 1..Len(s) : s[i] = c

\* Python truthiness of os.getenv's result: None and "" are falsy
Truthy(v) == v.isset /\ Len(v.val) > 0

(* -------------------------------------------------------------- validation *)

\* TRUE when the validator returns v, FALSE when it raises ValueError
validate_url(v) == StartsWith(v, HTTP) \/ StartsWith(v, HTTPS)

validate_email_both(v) == ~(~Contains(v, "@") /\ ~Contains(v, "."))

\* TRUE when the validator returns v, FALSE when it raises ValueError
validate_email(v) == ~(~Contains(v, "@") \/ ~Contains(v, "."))

(* ------------------------------------------------------------------ state *)

VARIABLES
    env,        \* process environment: EMAIL_USER, EMAIL_PASSWORD
    req,        \* request body of each request, NoReq before it arrives
    pc,         \* position of each request in process_article_endpoint
    pdf_path,   \* the handler's local pdf_path, NoPath before it is assigned
    pending,    \* the return value or exception in flight while finally runs
    resp,       \* the response of each request, NoResp until it is returned
    disk,       \* temporary directory: path -> file or Absent
    outbox,     \* messages accepted by the mail relay, per request
    log         \* external operations each request has attempted, in order

vars == <<env, req, pc, pdf_path, pending, resp, disk, outbox, log>>

NoReq == [url |-> <<"-">>, email |-> <<"-">>, arrived |-> FALSE]

NoPath == 0

NoResp == [status |-> 0, kind |-> "none", detail |-> ""]

Absent == [owner |-> 0, content |-> "absent", writer |-> 0]

\* the response bodies and errors the code produces
Ok200 ==
    [status |-> 200, kind |-> "ok",
     detail |-> "Article has been processed and sent to your email!"]

Invalid422 ==
    [status |-> 422, kind |-> "RequestValidationError", detail |-> "validation"]

Config500 ==
    [status |-> 500, kind |-> "HTTPException",
     detail |-> "Email configuration is missing"]

Fetch400 ==
    [status |-> 400, kind |-> "HTTPException",
     detail |-> "Failed to fetch article"]

Summarize500 ==
    [status |-> 500, kind |-> "HTTPException",
     detail |-> "Failed to process article content"]

ProcessOrSend500 ==
    [status |-> 500, kind |-> "HTTPException",
     detail |-> "Failed to process or send article"]

\* an exception that leaves the handler without being an HTTPException:
\* the framework answers 500 Internal Server Error
Unhandled(what) == [status |-> 500, kind |-> "unhandled", detail |-> what]

Entry(op, ok) == [op |-> op, ok |-> ok]

Logged(r, op, ok) == log' = [log EXCEPT ![r] = Append(@, Entry(op, ok))]

\* log queries
Failed(r, op) == \E i \in 1..Len(log[r]) : log[r][i] = Entry(op, FALSE)

Succeeded(r, op) == \E i \in 1..Len(log[r]) : log[r][i] = Entry(op, TRUE)

Attempted(r, op) == \E i \in 1..Len(log[r]) : log[r][i].op = op

\* op was attempted more than once
Repeated(r, op) ==
    \E i \in 1..Len(log[r]) :
        /\ log[r][i].op = op
        /\ \E j \in (i + 1)..Len(log[r]) : log[r][j].op = op

Finish(r, response) ==
    /\ resp' = [resp EXCEPT ![r] = response]
    /\ pc' = [pc EXCEPT ![r] = "done"]

Goto(r, label) == pc' = [pc EXCEPT ![r] = label]

Init ==
    /\ env \in [EMAIL_USER : EnvValues, EMAIL_PASSWORD : EnvValues]
    /\ req = [r \in Reqs |-> NoReq]
    /\ pc = [r \in Reqs |-> "idle"]
    /\ pdf_path = [r \in Reqs |-> NoPath]
    /\ pending = [r \in Reqs |-> NoResp]
    /\ resp = [r \in Reqs |-> NoResp]
    /\ disk = [p \in Paths |-> Absent]
    /\ outbox = [r \in Reqs |-> {}]
    /\ log = [r \in Reqs |-> <<>>]

(* ---------------------------------------------------------------- actions *)

\* The framework builds ArticleRequest from the body; a validator that
\* raises makes it answer 422 without calling the handler.
Receive(r) ==
    /\ pc[r] = "idle"
    /\ \E u \in URLs, e \in Emails :
        /\ req' = [req EXCEPT ![r] = [url |-> u, email |-> e, arrived |-> TRUE]]
        /\ IF validate_url(u) /\ validate_email(e)
           THEN Goto(r, "handler") /\ UNCHANGED resp
           ELSE Finish(r, Invalid422)
    /\ UNCHANGED <<env, pdf_path, pending, disk, outbox, log>>

CheckCredsAnd(r) ==
    /\ pc[r] = "handler"
    /\ IF ~Truthy(env.EMAIL_USER) /\ ~Truthy(env.EMAIL_PASSWORD)
       THEN Finish(r, Config500)
       ELSE Goto(r, "process_article") /\ UNCHANGED resp
    /\ UNCHANGED <<env, req, pdf_path, pending, disk, outbox, log>>

\* sender_email / sender_password from the environment, and the early raise
CheckCreds(r) ==
    /\ pc[r] = "handler"
    /\ IF ~Truthy(env.EMAIL_USER) \/ ~Truthy(env.EMAIL_PASSWORD)
       THEN Finish(r, Config500)
       ELSE Goto(r, "process_article") /\ UNCHANGED resp
    /\ UNCHANGED <<env, req, pdf_path, pending, disk, outbox, log>>

\* client = OpenAI(): outside every try block of process_article
ClientSetup(r) ==
    /\ pc[r] = "process_article"
    /\ \E ok \in BOOLEAN :
        /\ Logged(r, "client", ok)
        /\ IF ok
           THEN Goto(r, "fetch") /\ UNCHANGED resp
           ELSE Finish(r, Unhandled("OpenAIError"))
    /\ UNCHANGED <<env, req, pdf_path, pending, disk, outbox>>

FetchIgnoreStatus(r) ==
    /\ pc[r] = "fetch"
    /\ \E ok \in BOOLEAN :
        /\ Logged(r, "fetch", ok)
        /\ Goto(r, "clean") /\ UNCHANGED resp
    /\ UNCHANGED <<env, req, pdf_path, pending, disk, outbox>>

\* requests.get + raise_for_status, RequestException -> HTTPException(400)
Fetch(r) ==
    /\ pc[r] = "fetch"
    /\ \E ok \in BOOLEAN :
        /\ Logged(r, "fetch", ok)
        /\ IF ok
           THEN Goto(r, "clean") /\ UNCHANGED resp
           ELSE Finish(r, Fetch400)
    /\ UNCHANGED <<env, req, pdf_path, pending, disk, outbox>>

\* BeautifulSoup parse, decompose of style/script/img/path, get_text:
\* between the two try blocks, so an exception here is not converted
Clean(r) ==
    /\ pc[r] = "clean"
    /\ \E ok \in BOOLEAN :
        /\ Logged(r, "clean", ok)
        /\ IF ok
           THEN Goto(r, "summarize") /\ UNCHANGED resp
           ELSE Finish(r, Unhandled("cleaning"))
    /\ UNCHANGED <<env, req, pdf_path, pending, disk, outbox>>

SummarizeRetry(r) ==
    /\ pc[r] = "summarize"
    /\ \E ok \in BOOLEAN :
        /\ Logged(r, "model", ok)
        /\ IF ok
           THEN Goto(r, "tempfile") /\ UNCHANGED resp
           ELSE IF ~Failed(r, "model")
                THEN UNCHANGED <<pc, resp>>
                ELSE Finish(r, Summarize500)
    /\ UNCHANGED <<env, req, pdf_path, pending, disk, outbox>>

\* client.responses.create, any Exception -> HTTPException(500)
Summarize(r) ==
    /\ pc[r] = "summarize"
    /\ \E ok \in BOOLEAN :
        /\ Logged(r, "model", ok)
        /\ IF ok
           THEN Goto(r, "tempfile") /\ UNCHANGED resp
           ELSE Finish(r, Summarize500)
    /\ UNCHANGED <<env, req, pdf_path, pending, disk, outbox>>

MakeTempAnyName(r) ==
    /\ pc[r] = "tempfile"
    /\ \/ \E p \in Paths :
            /\ disk' = [disk EXCEPT ![p] =
                          [owner |-> r, content |-> "empty", writer |-> 0]]
            /\ pdf_path' = [pdf_path EXCEPT ![r] = p]
            /\ Logged(r, "tempfile", TRUE)
            /\ Goto(r, "render") /\ UNCHANGED resp
       \/ /\ Logged(r, "tempfile", FALSE)
          /\ Finish(r, Unhandled("OSError"))
          /\ UNCHANGED <<disk, pdf_path>>
    /\ UNCHANGED <<env, req, pending, outbox>>

\* tempfile.NamedTemporaryFile(suffix='.pdf', delete=False): an exclusive
\* create of a name that does not exist; outside the try block
MakeTemp(r) ==
    /\ pc[r] = "tempfile"
    /\ \/ \E p \in Paths :
            /\ disk[p] = Absent
            /\ disk' = [disk EXCEPT ![p] =
                          [owner |-> r, content |-> "empty", writer |-> 0]]
            /\ pdf_path' = [pdf_path EXCEPT ![r] = p]
            /\ Logged(r, "tempfile", TRUE)
            /\ Goto(r, "render") /\ UNCHANGED resp
       \/ /\ Logged(r, "tempfile", FALSE)
          /\ Finish(r, Unhandled("OSError"))
          /\ UNCHANGED <<disk, pdf_path>>
    /\ UNCHANGED <<env, req, pending, outbox>>

\* create_pdf returns, raises before doc.build has opened the output file
\* (Paragraph() on bad markup), or raises in doc.build with part written
RenderOutcomes == {"ok", "fail_before_write", "fail_midwrite"}

\* the file at the path after create_pdf: untouched when nothing was written
Written(file, r, outcome) ==
    IF outcome = "fail_before_write"
    THEN file
    ELSE [owner |-> file.owner,
          content |-> IF outcome = "ok" THEN "pdf" ELSE "partial",
          writer |-> r]

RenderContinue(r) ==
    /\ pc[r] = "render"
    /\ \E outcome \in RenderOutcomes :
      LET ok == outcome = "ok" IN
        /\ Logged(r, "render", ok)
        /\ disk' = [disk EXCEPT ![pdf_path[r]] = Written(@, r, outcome)]
        /\ Goto(r, "send") /\ UNCHANGED pending
    /\ UNCHANGED <<env, req, pdf_path, resp, outbox>>

\* create_pdf(article_content, pdf_path): writes over whatever is at the
\* path; an exception goes to the except clause and then to finally
Render(r) ==
    /\ pc[r] = "render"
    /\ \E outcome \in RenderOutcomes :
      LET ok == outcome = "ok" IN
        /\ Logged(r, "render", ok)
        /\ disk' = [disk EXCEPT ![pdf_path[r]] = Written(@, r, outcome)]
        /\ IF ok
           THEN Goto(r, "send") /\ UNCHANGED pending
           ELSE /\ Goto(r, "finally")
                /\ pending' = [pending EXCEPT ![r] = ProcessOrSend500]
    /\ UNCHANGED <<env, req, pdf_path, resp, outbox>>

\* send_email returns, raises before the relay has accepted the message
\* (open, connect, login, rejected DATA), or raises after the relay accepted
\* it (reply to DATA lost, or QUIT answered with a code other than 221 at
\* the end of the `with` block)
SendOutcomes == {"ok", "raise_before_accept", "raise_after_accept"}

\* send_email(...): attaches the bytes at pdf_path and hands the message to
\* the relay; then `return {"message": ...}` or the except clause
Send(r) ==
    /\ pc[r] = "send"
    /\ \E outcome \in SendOutcomes :
        /\ Logged(r, "send", outcome = "ok")
        /\ IF outcome = "raise_before_accept"
           THEN UNCHANGED outbox
           ELSE outbox' = [outbox EXCEPT ![r] = @ \cup
                             {[to |-> req[r].email,
                               attachment |-> disk[pdf_path[r]]]}]
        /\ pending' = [pending EXCEPT ![r] =
                         IF outcome = "ok" THEN Ok200 ELSE ProcessOrSend500]
        /\ Goto(r, "finally")
    /\ UNCHANGED <<env, req, pdf_path, resp, disk>>

\* finally: if os.path.exists(pdf_path): os.unlink(pdf_path).  An exception
\* raised here replaces the return value or exception in flight.  The
\* handler's frame, and with it the local pdf_path, ends with the response.
Cleanup(r) ==
    /\ pc[r] = "finally"
    /\ IF disk[pdf_path[r]] # Absent
       THEN \E ok \in BOOLEAN :
              /\ Logged(r, "unlink", ok)
              /\ IF ok
                 THEN /\ disk' = [disk EXCEPT ![pdf_path[r]] = Absent]
                      /\ Finish(r, pending[r])
                 ELSE /\ UNCHANGED disk
                      /\ Finish(r, Unhandled("OSError"))
       ELSE /\ Finish(r, pending[r])
            /\ UNCHANGED <<disk, log>>
    /\ pdf_path' = [pdf_path EXCEPT ![r] = NoPath]
    /\ UNCHANGED <<env, req, pending, outbox>>

Next ==
    \E r \in Reqs :
        \/ Receive(r)
        \/ CheckCreds(r)
        \/ ClientSetup(r)
        \/ Fetch(r)
        \/ Clean(r)
        \/ Summarize(r)
        \/ MakeTemp(r)
        \/ Render(r)
        \/ Send(r)
        \/ Cleanup(r)

Spec == Init /\ [][Next]_vars

(* ----------------------------------------------------------------- claims *)

\* what the request body looks like, stated on the text itself
BadUrl(r) == ~(StartsWith(req[r].url, HTTP) \/ StartsWith(req[r].url, HTTPS))

BadEmail(r) == ~Contains(req[r].email, "@") \/ ~Contains(req[r].email, ".")

CredsMissing == ~Truthy(env.EMAIL_USER) \/ ~Truthy(env.EMAIL_PASSWORD)

OwnsFile(r) == \E p \in Paths : disk[p].owner = r

\* no fetch, model call, render, temp file or send, and nothing produced
NoWork(r) ==
    /\ log[r] = <<>>
    /\ pdf_path[r] = NoPath
    /\ outbox[r] = {}
    /\ ~OwnsFile(r)

\* C1: a request whose url has no http:// or https:// prefix, or whose email
\* lacks "@" or lacks ".", is answered 422, and at no point of the request
\* is there a fetch, a model call, a render, a temp file or a send.
C1_InvalidRejectedBeforeWork ==
    \A r \in Reqs :
        (req[r].arrived /\ (BadUrl(r) \/ BadEmail(r)))
            => /\ pc[r] = "done"
               /\ resp[r] = Invalid422
               /\ NoWork(r)

\* a request with a good url and an email with "." but no "@" was rejected
C1_Witness ==
    \E r \in Reqs :
        /\ req[r].arrived
        /\ ~BadUrl(r)
        /\ ~Contains(req[r].email, "@") /\ Contains(req[r].email, ".")
        /\ resp[r] = Invalid422

\* C2 (as claimed): once the response has been returned, no temporary file
\* created by the request is left on disk, whatever the exit path.
C2_TempFileGoneAfterResponse ==
    \A r \in Reqs : pc[r] = "done" => ~OwnsFile(r)

\* C3 (as claimed): with EMAIL_USER or EMAIL_PASSWORD unset or empty, every
\* call returns the 500 "Email configuration is missing" error.
C3_EveryCallConfigError ==
    \A r \in Reqs : (CredsMissing /\ pc[r] = "done") => resp[r] = Config500

\* C3 (amended): with EMAIL_USER or EMAIL_PASSWORD unset or empty, every call
\* whose body passes validation returns the 500 "Email configuration is
\* missing" error, a call whose body fails validation returns 422, and in
\* neither case is there a fetch, a model call, a render or a send.
C3_ValidatedCallConfigError ==
    \A r \in Reqs :
        CredsMissing
            => /\ NoWork(r)
               /\ pc[r] \in {"idle", "handler", "done"}
               /\ pc[r] = "done" =>
                    resp[r] = IF BadUrl(r) \/ BadEmail(r)
                              THEN Invalid422 ELSE Config500

\* only one of the two credentials is missing, and a validated request got
\* the configuration error
C3_Witness ==
    \E r \in Reqs :
        /\ Truthy(env.EMAIL_USER) /\ ~Truthy(env.EMAIL_PASSWORD)
        /\ req[r].arrived /\ ~BadUrl(r) /\ ~BadEmail(r)
        /\ resp[r] = Config500

\* C4: a failed GET on a validated request with credentials present is
\* answered 400 "Failed to fetch article"; no model call is made, no temp
\* file is created and nothing is sent.
C4_FetchFailureIs400 ==
    \A r \in Reqs :
        Failed(r, "fetch")
            => /\ pc[r] = "done"
               /\ resp[r] = Fetch400
               /\ ~Attempted(r, "model") /\ ~Attempted(r, "tempfile")
               /\ ~Attempted(r, "render") /\ ~Attempted(r, "send")
               /\ pdf_path[r] = NoPath /\ ~OwnsFile(r) /\ outbox[r] = {}

C4_Witness ==
    \E r \in Reqs :
        /\ Failed(r, "fetch") /\ resp[r] = Fetch400
        /\ ~CredsMissing /\ ~BadUrl(r) /\ ~BadEmail(r)

\* C5 (as claimed): the response is the 200 success message exactly when the
\* email was sent; a failure response means nothing was delivered.
C5_SuccessIffSent ==
    \A r \in Reqs : pc[r] = "done" => (resp[r] = Ok200 <=> outbox[r] # {})

\* C6 (as claimed): no stage failure leaves the handler as anything but an
\* HTTPException (400 fetch, 500 credentials / summarization / render-send).
C6_EveryFailureConverted ==
    \A r \in Reqs :
        pc[r] = "done"
            => resp[r] \in {Ok200, Invalid422, Config500, Fetch400,
                            Summarize500, ProcessOrSend500}

\* C7 (as claimed): when the render or the send failed, the response reports
\* that failure even if the cleanup fails too, and a cleanup failure after a
\* successful send leaves the success response in place.
C7_CleanupNeverMasks ==
    \A r \in Reqs :
        (pc[r] = "done" /\ Failed(r, "unlink"))
            => /\ (Failed(r, "render") \/ Failed(r, "send"))
                    => resp[r] = ProcessOrSend500
               /\ Succeeded(r, "send") => resp[r] = Ok200

StageOrder ==
    <<"client", "fetch", "clean", "model", "tempfile", "render", "send",
      "unlink">>

\* C8: the stages of a request run in the order fetch, clean, summarize,
\* render, send, cleanup; each runs only after every earlier one succeeded,
\* none is repeated, and after a failure only the cleanup may still run.
C8_StagesInOrder ==
    \A r \in Reqs :
        /\ log[r] # <<>> => (~BadUrl(r) /\ ~BadEmail(r) /\ ~CredsMissing)
        /\ \A i \in 1..Len(log[r]) :
            IF log[r][i].op = "unlink"
            THEN /\ i = Len(log[r])
                 /\ i \in {7, 8}
                 /\ log[r][i - 2].ok
            ELSE /\ log[r][i].op = StageOrder[i]
                 /\ i > 1 => log[r][i - 1].ok
        /\ resp[r] = Ok200 =>
            /\ Len(log[r]) = 8
            /\ \A i \in 1..8 : log[r][i] = Entry(StageOrder[i], TRUE)

\* one request ran every stage, another stopped at a failed render and went
\* straight to the cleanup
C8_Witness ==
    \E r1, r2 \in Reqs :
        /\ resp[r1] = Ok200
        /\ Failed(r2, "render") /\ Succeeded(r2, "unlink") /\ pc[r2] = "done"

Holding(r) == pc[r] \in {"render", "send", "finally"}

\* C9: under any interleaving, two in-flight requests never hold the same
\* temporary path: the file at a request's path is its own, only it has
\* written it, and what it mailed is what it rendered.
C9_NoSharedTempPath ==
    /\ \A r1, r2 \in Reqs :
        (r1 # r2 /\ Holding(r1) /\ Holding(r2)) => pdf_path[r1] # pdf_path[r2]
    /\ \A r \in Reqs :
        Holding(r) => /\ disk[pdf_path[r]].owner = r
                      /\ disk[pdf_path[r]].writer \in {0, r}
    /\ \A r \in Reqs : \A m \in outbox[r] :
        m.attachment = [owner |-> r, content |-> "pdf", writer |-> r]

\* two requests hold temp files at once, one rendered and one being sent
C9_Witness ==
    \E r1, r2 \in Reqs :
        /\ r1 # r2
        /\ pc[r1] = "send" /\ pc[r2] = "finally" /\ outbox[r2] # {}

\* C10: the GET, the model call and the SMTP send are each attempted at most
\* once per request, and the first failure of one of them ends the request
\* with an error response (after the cleanup, for the send).
C10_NoRetry ==
    \A r \in Reqs :
        /\ ~Repeated(r, "fetch")
        /\ ~Repeated(r, "model")
        /\ ~Repeated(r, "send")
        /\ Failed(r, "fetch") => (pc[r] = "done" /\ resp[r] = Fetch400)
        /\ Failed(r, "model") => (pc[r] = "done" /\ resp[r] = Summarize500)
        /\ Failed(r, "send") =>
            /\ pc[r] \in {"finally", "done"}
            /\ pending[r] = ProcessOrSend500
            /\ pc[r] = "done" => resp[r].status = 500

C10_Witness ==
    \E r1, r2 \in Reqs :
        /\ Failed(r1, "model") /\ resp[r1] = Summarize500
        /\ Failed(r2, "send") /\ resp[r2] = ProcessOrSend500

====
